---- MODULE Spec2Model ----
(***************************************************************************)
(* Button-mapping matrix (ResetControls) and the per-frame input helpers   *)
(* (edge computation on ControllerState) of snes9xGC.                      *)
(*                                                                         *)
(* A u32 bitmask is modelled as the set of its set bit positions (0..31):  *)
(* a & b is intersection, a | b is union, ~a is the complement in 0..31,   *)
(* and the value 0 is the empty set.  The 32-bit width is kept exactly.    *)
(***************************************************************************)
EXTENDS Integers, Sequences, FiniteSets

\* ------------------------------------------------------------------ u32

U32Bits == 0 .. 31

\* The u32 whose value is the 16-bit number n.
U32(n) == { i \in 0 .. 15 : (n \div (2 ^ i)) % 2 = 1 }

\* x << k on a u32 (bits shifted out of the word are lost).
Shl(x, k) == { i + k : i \in { j \in x : j + k \in U32Bits } }

BitAnd(a, b) == a \cap b

BitOr(a, b) == a \cup b

BitNot(a) == U32Bits \ a

Zero == {}

\* ------------------------------------------------- controller enums

CTRL_PAD == 0
CTRL_SCOPE == 1
CTRL_MOUSE == 2
CTRL_JUST == 3

CTRLR_NONE == -1
CTRLR_GCPAD == 0
CTRLR_WIIMOTE == 1
CTRLR_NUNCHUK == 2
CTRLR_CLASSIC == 3
CTRLR_WUPC == 4
CTRLR_WIIDRC == 5

\* The first two dimensions of btnmap.
ConsoleTypes == { CTRL_PAD, CTRL_SCOPE, CTRL_MOUSE, CTRL_JUST }

ControllerTypes == { CTRLR_GCPAD, CTRLR_WIIMOTE, CTRLR_NUNCHUK,
                     CTRLR_CLASSIC, CTRLR_WUPC, CTRLR_WIIDRC }

\* Third dimension of btnmap: the longest row ResetControls writes.
MAXJP == 12

Slots == 0 .. (MAXJP - 1)

\* ------------------------------------------- physical button codes

\* GameCube pad (PAD_*).
PAD_BUTTON_LEFT == U32(1)
PAD_BUTTON_RIGHT == U32(2)
PAD_BUTTON_DOWN == U32(4)
PAD_BUTTON_UP == U32(8)
PAD_TRIGGER_Z == U32(16)
PAD_TRIGGER_R == U32(32)
PAD_TRIGGER_L == U32(64)
PAD_BUTTON_A == U32(256)
PAD_BUTTON_B == U32(512)
PAD_BUTTON_X == U32(1024)
PAD_BUTTON_Y == U32(2048)
PAD_BUTTON_START == U32(4096)

\* Wiimote (WPAD_BUTTON_*) and Nunchuk.
WPAD_BUTTON_2 == U32(1)
WPAD_BUTTON_1 == U32(2)
WPAD_BUTTON_B == U32(4)
WPAD_BUTTON_A == U32(8)
WPAD_BUTTON_MINUS == U32(16)
WPAD_BUTTON_LEFT == U32(256)
WPAD_BUTTON_RIGHT == U32(512)
WPAD_BUTTON_DOWN == U32(1024)
WPAD_BUTTON_UP == U32(2048)
WPAD_BUTTON_PLUS == U32(4096)
WPAD_NUNCHUK_BUTTON_Z == Shl(U32(1), 16)
WPAD_NUNCHUK_BUTTON_C == Shl(U32(2), 16)

\* Classic controller / Wii U Pro controller (WPAD_CLASSIC_BUTTON_*).
WPAD_CLASSIC_BUTTON_UP == Shl(U32(1), 16)
WPAD_CLASSIC_BUTTON_LEFT == Shl(U32(2), 16)
WPAD_CLASSIC_BUTTON_X == Shl(U32(8), 16)
WPAD_CLASSIC_BUTTON_A == Shl(U32(16), 16)
WPAD_CLASSIC_BUTTON_Y == Shl(U32(32), 16)
WPAD_CLASSIC_BUTTON_B == Shl(U32(64), 16)
WPAD_CLASSIC_BUTTON_FULL_R == Shl(U32(512), 16)
WPAD_CLASSIC_BUTTON_PLUS == Shl(U32(1024), 16)
WPAD_CLASSIC_BUTTON_MINUS == Shl(U32(4096), 16)
WPAD_CLASSIC_BUTTON_FULL_L == Shl(U32(8192), 16)
WPAD_CLASSIC_BUTTON_DOWN == Shl(U32(16384), 16)
WPAD_CLASSIC_BUTTON_RIGHT == Shl(U32(32768), 16)

\* Wii U gamepad (WIIDRC_BUTTON_*).
WIIDRC_BUTTON_MINUS == U32(4)
WIIDRC_BUTTON_PLUS == U32(8)
WIIDRC_BUTTON_R == U32(16)
WIIDRC_BUTTON_L == U32(32)
WIIDRC_BUTTON_DOWN == U32(256)
WIIDRC_BUTTON_UP == U32(512)
WIIDRC_BUTTON_RIGHT == U32(1024)
WIIDRC_BUTTON_LEFT == U32(2048)
WIIDRC_BUTTON_Y == U32(4096)
WIIDRC_BUTTON_X == U32(8192)
WIIDRC_BUTTON_B == U32(16384)
WIIDRC_BUTTON_A == U32(32768)

\* --------------------------------------------------- ResetControls

\* One "if (...) { i=0; btnmap[con][wii][i++] = ...; }" block of
\* ResetControls: the row it targets and the codes it stores, in order.
Block(con, wii, codes) == [con |-> con, wii |-> wii, codes |-> codes]

PadBlocks ==
  << Block(CTRL_PAD, CTRLR_GCPAD,
       << PAD_BUTTON_A, PAD_BUTTON_B, PAD_BUTTON_X, PAD_BUTTON_Y,
          PAD_TRIGGER_L, PAD_TRIGGER_R, PAD_BUTTON_START, PAD_TRIGGER_Z,
          PAD_BUTTON_UP, PAD_BUTTON_DOWN, PAD_BUTTON_LEFT, PAD_BUTTON_RIGHT >>),
     Block(CTRL_PAD, CTRLR_WIIMOTE,
       << WPAD_BUTTON_B, WPAD_BUTTON_2, WPAD_BUTTON_1, WPAD_BUTTON_A,
          Zero, Zero, WPAD_BUTTON_PLUS, WPAD_BUTTON_MINUS,
          WPAD_BUTTON_RIGHT, WPAD_BUTTON_LEFT, WPAD_BUTTON_UP, WPAD_BUTTON_DOWN >>),
     Block(CTRL_PAD, CTRLR_CLASSIC,
       << WPAD_CLASSIC_BUTTON_A, WPAD_CLASSIC_BUTTON_B, WPAD_CLASSIC_BUTTON_X,
          WPAD_CLASSIC_BUTTON_Y, WPAD_CLASSIC_BUTTON_FULL_L,
          WPAD_CLASSIC_BUTTON_FULL_R, WPAD_CLASSIC_BUTTON_PLUS,
          WPAD_CLASSIC_BUTTON_MINUS, WPAD_CLASSIC_BUTTON_UP,
          WPAD_CLASSIC_BUTTON_DOWN, WPAD_CLASSIC_BUTTON_LEFT,
          WPAD_CLASSIC_BUTTON_RIGHT >>),
     Block(CTRL_PAD, CTRLR_WUPC,
       << WPAD_CLASSIC_BUTTON_A, WPAD_CLASSIC_BUTTON_B, WPAD_CLASSIC_BUTTON_X,
          WPAD_CLASSIC_BUTTON_Y, WPAD_CLASSIC_BUTTON_FULL_L,
          WPAD_CLASSIC_BUTTON_FULL_R, WPAD_CLASSIC_BUTTON_PLUS,
          WPAD_CLASSIC_BUTTON_MINUS, WPAD_CLASSIC_BUTTON_UP,
          WPAD_CLASSIC_BUTTON_DOWN, WPAD_CLASSIC_BUTTON_LEFT,
          WPAD_CLASSIC_BUTTON_RIGHT >>),
     Block(CTRL_PAD, CTRLR_WIIDRC,
       << WIIDRC_BUTTON_A, WIIDRC_BUTTON_B, WIIDRC_BUTTON_X, WIIDRC_BUTTON_Y,
          WIIDRC_BUTTON_L, WIIDRC_BUTTON_R, WIIDRC_BUTTON_PLUS,
          WIIDRC_BUTTON_MINUS, WIIDRC_BUTTON_UP, WIIDRC_BUTTON_DOWN,
          WIIDRC_BUTTON_LEFT, WIIDRC_BUTTON_RIGHT >>),
     Block(CTRL_PAD, CTRLR_NUNCHUK,
       << WPAD_BUTTON_A, WPAD_BUTTON_B, WPAD_NUNCHUK_BUTTON_C,
          WPAD_NUNCHUK_BUTTON_Z, WPAD_BUTTON_2, WPAD_BUTTON_1,
          WPAD_BUTTON_PLUS, WPAD_BUTTON_MINUS, WPAD_BUTTON_UP,
          WPAD_BUTTON_DOWN, WPAD_BUTTON_LEFT, WPAD_BUTTON_RIGHT >>) >>

ScopeBlocks ==
  << Block(CTRL_SCOPE, CTRLR_GCPAD,
       << PAD_BUTTON_A, PAD_BUTTON_B, PAD_TRIGGER_Z,
          PAD_BUTTON_Y, PAD_BUTTON_X, PAD_BUTTON_START >>),
     Block(CTRL_SCOPE, CTRLR_WIIMOTE,
       << WPAD_BUTTON_B, WPAD_BUTTON_A, WPAD_BUTTON_MINUS,
          WPAD_BUTTON_UP, WPAD_BUTTON_DOWN, WPAD_BUTTON_PLUS >>),
     Block(CTRL_SCOPE, CTRLR_CLASSIC,
       << WPAD_CLASSIC_BUTTON_B, WPAD_CLASSIC_BUTTON_A,
          WPAD_CLASSIC_BUTTON_MINUS, WPAD_CLASSIC_BUTTON_Y,
          WPAD_CLASSIC_BUTTON_X, WPAD_CLASSIC_BUTTON_PLUS >>),
     Block(CTRL_SCOPE, CTRLR_WUPC,
       << WPAD_CLASSIC_BUTTON_B, WPAD_CLASSIC_BUTTON_A,
          WPAD_CLASSIC_BUTTON_MINUS, WPAD_CLASSIC_BUTTON_Y,
          WPAD_CLASSIC_BUTTON_X, WPAD_CLASSIC_BUTTON_PLUS >>),
     Block(CTRL_SCOPE, CTRLR_WIIDRC,
       << WIIDRC_BUTTON_B, WIIDRC_BUTTON_A, WIIDRC_BUTTON_MINUS,
          WIIDRC_BUTTON_Y, WIIDRC_BUTTON_X, WIIDRC_BUTTON_PLUS >>) >>

MouseBlocks ==
  << Block(CTRL_MOUSE, CTRLR_GCPAD, << PAD_BUTTON_A, PAD_BUTTON_B >>),
     Block(CTRL_MOUSE, CTRLR_WIIMOTE, << WPAD_BUTTON_A, WPAD_BUTTON_B >>),
     Block(CTRL_MOUSE, CTRLR_CLASSIC,
       << WPAD_CLASSIC_BUTTON_A, WPAD_CLASSIC_BUTTON_B >>),
     Block(CTRL_MOUSE, CTRLR_WUPC,
       << WPAD_CLASSIC_BUTTON_A, WPAD_CLASSIC_BUTTON_B >>),
     Block(CTRL_MOUSE, CTRLR_WIIDRC, << WIIDRC_BUTTON_A, WIIDRC_BUTTON_B >>) >>

JustBlocks ==
  << Block(CTRL_JUST, CTRLR_GCPAD,
       << PAD_BUTTON_B, PAD_BUTTON_A, PAD_BUTTON_START >>),
     Block(CTRL_JUST, CTRLR_WIIMOTE,
       << WPAD_BUTTON_B, WPAD_BUTTON_A, WPAD_BUTTON_PLUS >>),
     Block(CTRL_JUST, CTRLR_CLASSIC,
       << WPAD_CLASSIC_BUTTON_B, WPAD_CLASSIC_BUTTON_A,
          WPAD_CLASSIC_BUTTON_PLUS >>),
     Block(CTRL_JUST, CTRLR_WUPC,
       << WPAD_CLASSIC_BUTTON_B, WPAD_CLASSIC_BUTTON_A,
          WPAD_CLASSIC_BUTTON_PLUS >>),
     Block(CTRL_JUST, CTRLR_WIIDRC,
       << WIIDRC_BUTTON_B, WIIDRC_BUTTON_A, WIIDRC_BUTTON_PLUS >>) >>

\* The blocks of ResetControls, in source order.
Blocks == PadBlocks \o ScopeBlocks \o MouseBlocks \o JustBlocks

\* Variants of the block condition and of the block body, as slips of the code
\* would make them.
BlockSelected_AllSkipsLast(consoleCtrl, wiiCtrl, b) ==
  \/ consoleCtrl = -1 /\ ~(b.con = CTRL_JUST /\ b.wii = CTRLR_WIIDRC)
  \/ consoleCtrl = b.con /\ wiiCtrl = b.wii

BlockSelected_AllNeedsBoth(consoleCtrl, wiiCtrl, b) ==
  (consoleCtrl = -1 /\ wiiCtrl = -1) \/ (consoleCtrl = b.con /\ wiiCtrl = b.wii)

BlockSelected_WiiAll(consoleCtrl, wiiCtrl, b) ==
  consoleCtrl = -1 \/ (consoleCtrl = b.con /\ (wiiCtrl = -1 \/ wiiCtrl = b.wii))

BlockSelected_IgnoresWii(consoleCtrl, wiiCtrl, b) ==
  consoleCtrl = -1 \/ consoleCtrl = b.con

BlockSelected_NunchukAsWiimote(consoleCtrl, wiiCtrl, b) ==
  consoleCtrl = -1
    \/ (consoleCtrl = b.con
          /\ (wiiCtrl = b.wii
                \/ (wiiCtrl = CTRLR_NUNCHUK /\ b.wii = CTRLR_WIIMOTE)))

WriteRow_OneShort(m, b) ==
  [m EXCEPT ![b.con][b.wii] =
     [i \in Slots |-> IF i < Len(b.codes) - 1 THEN b.codes[i + 1] ELSE @[i]]]

WriteRow_RepeatsFirst(m, b) ==
  [m EXCEPT ![b.con][b.wii] =
     [i \in Slots |-> IF i < Len(b.codes)
                        THEN b.codes[IF i = 1 THEN 1 ELSE i + 1] ELSE @[i]]]

WriteRow_SkipsZero(m, b) ==
  [m EXCEPT ![b.con][b.wii] =
     [i \in Slots |-> IF i < Len(b.codes) /\ b.codes[i + 1] # Zero
                        THEN b.codes[i + 1] ELSE @[i]]]

WriteRow_KeepsMapped(m, b) ==
  [m EXCEPT ![b.con][b.wii] =
     [i \in Slots |-> IF i < Len(b.codes) /\ @[i] = Zero
                        THEN b.codes[i + 1] ELSE @[i]]]

\* The condition guarding a block:
\*   consoleCtrl == -1 || (consoleCtrl == CTRL_x && wiiCtrl == CTRLR_y)
BlockSelected(consoleCtrl, wiiCtrl, b) ==
  consoleCtrl = -1 \/ (consoleCtrl = b.con /\ wiiCtrl = b.wii)

\* The body of a block: i = 0; btnmap[con][wii][i++] = code; ... for each
\* code of the block; the entries at and beyond the final i are not touched.
WriteRow(m, b) ==
  [m EXCEPT ![b.con][b.wii] =
     [i \in Slots |-> IF i < Len(b.codes) THEN b.codes[i + 1] ELSE @[i]]]

\* The blocks from the k-th on, run on matrix m.
RECURSIVE RunBlocks(_, _, _, _)
RunBlocks(m, consoleCtrl, wiiCtrl, k) ==
  IF k > Len(Blocks) THEN m
  ELSE RunBlocks(IF BlockSelected(consoleCtrl, wiiCtrl, Blocks[k])
                   THEN WriteRow(m, Blocks[k]) ELSE m,
                 consoleCtrl, wiiCtrl, k + 1)

\* void ResetControls(int consoleCtrl, int wiiCtrl), as the matrix it leaves.
ResetControls(m, consoleCtrl, wiiCtrl) == RunBlocks(m, consoleCtrl, wiiCtrl, 1)

\* ------------------------------------------------- ControllerState

\* ControllerState current = {0};
ZeroState ==
  [buttons_held |-> Zero, buttons_pressed |-> Zero, buttons_released |-> Zero,
   stick_x |-> 0, stick_y |-> 0, connected |-> FALSE]

\* A ControllerState* is the index of a state in the array, or NULL.
NULL == 0

\* Variants of TestProcessButtonInput, as slips of the code would make them.
TestProcessButtonInput_Swapped(mem, current, previous) ==
  IF current = NULL \/ previous = NULL
    THEN [ret |-> FALSE, mem |-> mem]
    ELSE [ret |-> TRUE,
          mem |-> [mem EXCEPT
                     ![current].buttons_pressed =
                        BitAnd(mem[previous].buttons_held,
                               BitNot(mem[current].buttons_held)),
                     ![current].buttons_released =
                        BitAnd(mem[current].buttons_held,
                               BitNot(mem[previous].buttons_held))]]

TestProcessButtonInput_AdvancesPrevious(mem, current, previous) ==
  IF current = NULL \/ previous = NULL
    THEN [ret |-> FALSE, mem |-> mem]
    ELSE [ret |-> TRUE,
          mem |-> [mem EXCEPT
                     ![current].buttons_pressed =
                        BitAnd(mem[current].buttons_held,
                               BitNot(mem[previous].buttons_held)),
                     ![current].buttons_released =
                        BitAnd(mem[previous].buttons_held,
                               BitNot(mem[current].buttons_held)),
                     ![previous].buttons_held = mem[current].buttons_held]]

TestProcessButtonInput_ClearsFirst(mem, current, previous) ==
  IF current = NULL
    THEN [ret |-> FALSE, mem |-> mem]
    ELSE LET cleared == [mem EXCEPT ![current].buttons_pressed = Zero,
                                    ![current].buttons_released = Zero]
         IN  IF previous = NULL
               THEN [ret |-> FALSE, mem |-> cleared]
               ELSE [ret |-> TRUE,
                     mem |-> [cleared EXCEPT
                                ![current].buttons_pressed =
                                   BitAnd(mem[current].buttons_held,
                                          BitNot(mem[previous].buttons_held)),
                                ![current].buttons_released =
                                   BitAnd(mem[previous].buttons_held,
                                          BitNot(mem[current].buttons_held))]]

TestProcessButtonInput_ReleasedAll(mem, current, previous) ==
  IF current = NULL \/ previous = NULL
    THEN [ret |-> FALSE, mem |-> mem]
    ELSE [ret |-> TRUE,
          mem |-> [mem EXCEPT
                     ![current].buttons_pressed =
                        BitAnd(mem[current].buttons_held,
                               BitNot(mem[previous].buttons_held)),
                     ![current].buttons_released = mem[previous].buttons_held]]

TestProcessButtonInput_PressedOnChange(mem, current, previous) ==
  IF current = NULL \/ previous = NULL
    THEN [ret |-> FALSE, mem |-> mem]
    ELSE [ret |-> TRUE,
          mem |-> [mem EXCEPT
                     ![current].buttons_pressed =
                        BitOr(BitAnd(mem[current].buttons_held,
                                     BitNot(mem[previous].buttons_held)),
                              BitAnd(mem[previous].buttons_held,
                                     BitNot(mem[current].buttons_held))),
                     ![current].buttons_released =
                        BitAnd(mem[previous].buttons_held,
                               BitNot(mem[current].buttons_held))]]

TestProcessButtonInput_Level(mem, current, previous) ==
  IF current = NULL \/ previous = NULL
    THEN [ret |-> FALSE, mem |-> mem]
    ELSE [ret |-> TRUE,
          mem |-> [mem EXCEPT
                     ![current].buttons_pressed = mem[current].buttons_held,
                     ![current].buttons_released =
                        BitAnd(mem[previous].buttons_held,
                               BitNot(mem[current].buttons_held))]]

\* bool TestProcessButtonInput(ControllerState* current, ControllerState* previous)
\* on the array mem of states: what it returns and the array it leaves.
TestProcessButtonInput(mem, current, previous) ==
  IF current = NULL \/ previous = NULL
    THEN [ret |-> FALSE, mem |-> mem]
    ELSE LET pressed == BitAnd(mem[current].buttons_held,
                               BitNot(mem[previous].buttons_held))
             cur1 == [mem EXCEPT ![current].buttons_pressed = pressed]
             released == BitAnd(cur1[previous].buttons_held,
                                BitNot(cur1[current].buttons_held))
         IN  [ret |-> TRUE,
              mem |-> [cur1 EXCEPT ![current].buttons_released = released]]

\* SNES button codes used by the input tests.
SNES_B == U32(32768)
SNES_START == U32(4096)
SNES_A == U32(128)

\* The other SNES button codes of the enum.
SNES_Y == U32(16384)
SNES_SELECT == U32(8192)
SNES_UP == U32(2048)
SNES_DOWN == U32(1024)
SNES_LEFT == U32(512)
SNES_RIGHT == U32(256)
SNES_X == U32(64)
SNES_L == U32(32)
SNES_R == U32(16)

TestValidateButtonCombo_Any(buttons, required_combo) ==
  required_combo = Zero \/ BitAnd(buttons, required_combo) # Zero

TestValidateButtonCombo_Exact(buttons, required_combo) ==
  buttons = required_combo

\* bool TestValidateButtonCombo(u32 buttons, u32 required_combo):
\*   return (buttons & required_combo) == required_combo;
TestValidateButtonCombo(buttons, required_combo) ==
  BitAnd(buttons, required_combo) = required_combo

\* The case labels of the switch in TestMapGCButtonToSNES, each with the code
\* its case returns, in the order of the source.
GCToSNES ==
  << << U32(1), SNES_A >>, << U32(2), SNES_B >>, << U32(4), SNES_X >>,
     << U32(8), SNES_Y >>, << U32(16), SNES_L >>, << U32(32), SNES_R >>,
     << U32(256), SNES_START >>, << U32(4096), SNES_UP >>,
     << U32(8192), SNES_DOWN >>, << U32(16384), SNES_LEFT >>,
     << U32(32768), SNES_RIGHT >> >>

TestMapGCButtonToSNES_StartIsSelect(gc_button) ==
  IF gc_button = U32(256)
    THEN SNES_SELECT
    ELSE IF \E k \in 1 .. Len(GCToSNES) : GCToSNES[k][1] = gc_button
      THEN GCToSNES[CHOOSE k \in 1 .. Len(GCToSNES) : GCToSNES[k][1] = gc_button][2]
      ELSE Zero

TestMapGCButtonToSNES_NoStart(gc_button) ==
  IF \E k \in 1 .. Len(GCToSNES) :
        GCToSNES[k][1] = gc_button /\ GCToSNES[k][2] # SNES_START
    THEN GCToSNES[CHOOSE k \in 1 .. Len(GCToSNES) : GCToSNES[k][1] = gc_button][2]
    ELSE Zero

\* The bit-test-then-OR algorithm over a table of << source, destination >>
\* pairs: the OR of the destinations of the entries whose source is contained
\* in raw.
BitTestThenOr(table, raw) ==
  UNION { table[k][2] : k \in { j \in 1 .. Len(table) :
                                  BitAnd(raw, table[j][1]) = table[j][1] } }

TestMapGCButtonToSNES_BitTest(gc_button) == BitTestThenOr(GCToSNES, gc_button)

\* u32 TestMapGCButtonToSNES(u32 gc_button): switch (gc_button) with one case
\* per label, default: return 0. A switch selects the case whose label equals
\* the value.
TestMapGCButtonToSNES(gc_button) ==
  IF \E k \in 1 .. Len(GCToSNES) : GCToSNES[k][1] = gc_button
    THEN GCToSNES[CHOOSE k \in 1 .. Len(GCToSNES) : GCToSNES[k][1] = gc_button][2]
    ELSE Zero

\* abs() of an s16 promoted to int: -32768 gives 32768, nothing overflows.
Abs(v) == IF v < 0 THEN -v ELSE v

TestStickDeadzone_Either(x, y, deadzone) ==
  Abs(x) < deadzone \/ Abs(y) < deadzone

TestStickDeadzone_Inclusive(x, y, deadzone) ==
  Abs(x) <= deadzone /\ Abs(y) <= deadzone

\* bool TestStickDeadzone(s16 x, s16 y, s16 deadzone):
\*   return (abs(x) < deadzone && abs(y) < deadzone);
TestStickDeadzone(x, y, deadzone) ==
  Abs(x) < deadzone /\ Abs(y) < deadzone

TestStickToDigital_DownAbove(x, y, threshold) ==
  LET r1 == IF x < -threshold THEN SNES_LEFT ELSE Zero
      r2 == IF x > threshold THEN BitOr(r1, SNES_RIGHT) ELSE r1
      r3 == IF y > -threshold THEN BitOr(r2, SNES_DOWN) ELSE r2
  IN  IF y > threshold THEN BitOr(r3, SNES_UP) ELSE r3

TestStickToDigital_Inclusive(x, y, threshold) ==
  LET r1 == IF x <= -threshold THEN SNES_LEFT ELSE Zero
      r2 == IF x >= threshold THEN BitOr(r1, SNES_RIGHT) ELSE r1
      r3 == IF y <= -threshold THEN BitOr(r2, SNES_DOWN) ELSE r2
  IN  IF y >= threshold THEN BitOr(r3, SNES_UP) ELSE r3

\* u32 TestStickToDigital(s16 x, s16 y, s16 threshold): result starts at 0 and
\* four ifs OR one direction each into it; -threshold is computed in int.
TestStickToDigital(x, y, threshold) ==
  LET r1 == IF x < -threshold THEN SNES_LEFT ELSE Zero
      r2 == IF x > threshold THEN BitOr(r1, SNES_RIGHT) ELSE r1
      r3 == IF y < -threshold THEN BitOr(r2, SNES_DOWN) ELSE r2
  IN  IF y > threshold THEN BitOr(r3, SNES_UP) ELSE r3

\* ----------------------------------------------------------- state

VARIABLES
  btnmap,    \* u32 btnmap[console][controller][slot]
  before,    \* btnmap as it was when the last ResetControls call began
  call,      \* <<consoleCtrl, wiiCtrl>> of the last operation if it was
             \* ResetControls, NoCall otherwise
  repeat,    \* the last two operations were ResetControls with equal arguments
  remaps,    \* number of user remaps applied so far
  states,    \* the ControllerState array of the frame sequence
  polled,    \* the bitmask polled in each frame so far
  ret,       \* what the last TestProcessButtonInput call returned
  args,      \* <<current, previous>> of the last TestProcessButtonInput call,
             \* NoCall before the first
  fn,        \* the helper function applied last, "idle" before the first
  inp,       \* the arguments it was applied to
  out,       \* what it returned
  ctrlr      \* the CtrlrMap that TestMapButton works on

vars == << btnmap, before, call, repeat, remaps, states, polled, ret, args,
          fn, inp, out, ctrlr >>

registryVars == << btnmap, before, call, repeat, remaps >>

inputVars == << states, polled, ret, args >>

helperVars == << fn, inp, out, ctrlr >>

NoCall == << >>

\* Bound on the user remaps of one behaviour.
MaxRemaps == 1

\* Bound on the frames of one behaviour.
MaxFrames == 3

\* Arguments tried for ResetControls: the ALL sentinel, every enum value and
\* one value past each enum.
ConsoleArgs == -1 .. 4

WiiArgs == -1 .. 6

\* The zero-initialised global array.
ZeroMatrix == [c \in ConsoleTypes |-> [p \in ControllerTypes |-> [i \in Slots |-> Zero]]]

\* The entries the model lets a user remap (the first slot of every row, and
\* the slot the Wiimote pad row leaves unmapped) and the code it stores there,
\* one that no default row uses.
Remappable(c, p, i) ==
  i = 0 \/ (c = CTRL_PAD /\ p = CTRLR_WIIMOTE /\ i = 4)

RemapCodes == { WPAD_BUTTON_MINUS }

\* Number of logical slots of a console scheme.
SlotCount(c) ==
  CASE c = CTRL_PAD -> 12
    [] c = CTRL_SCOPE -> 6
    [] c = CTRL_MOUSE -> 2
    [] c = CTRL_JUST -> 3

\* Bitmasks a frame may poll: any combination of three buttons.
PolledMasks == { BitOr(BitOr(a, b), c) : a \in { Zero, SNES_A },
                                       b \in { Zero, SNES_B },
                                       c \in { Zero, SNES_START } }

InputIdle ==
  /\ states = << ZeroState >>
  /\ polled = << >>
  /\ ret = FALSE
  /\ args = NoCall

\* The registry after the startup call ResetControls(-1, -1) on the
\* zero-initialised array.
RegistryBooted ==
  /\ before = ZeroMatrix
  /\ btnmap = ResetControls(ZeroMatrix, -1, CTRLR_NONE)
  /\ call = << -1, CTRLR_NONE >>
  /\ repeat = FALSE
  /\ remaps = 0

\* struct BtnMap / struct CtrlrMap: a controller map with num_btns usable slots
\* out of MAXMAP; the tests leave the entries unset, modelled as code 0 and
\* an empty name.
MAXMAP == 15

NewCtrlrMap(num_btns) ==
  [type |-> CTRLR_GCPAD, num_btns |-> num_btns,
   map |-> [i \in 0 .. (MAXMAP - 1) |-> [btn |-> Zero, name |-> ""]]]

TestMapButton_NoCountCheck(c, ptr, buttonIndex, buttonValue, buttonName) ==
  IF ptr = NULL \/ buttonIndex < 0 \/ buttonIndex >= MAXMAP
    THEN [ret |-> FALSE, ctrlr |-> c]
    ELSE [ret |-> TRUE,
          ctrlr |-> [c EXCEPT !.map[buttonIndex] =
                                 [btn |-> buttonValue, name |-> buttonName]]]

\* bool TestMapButton(CtrlrMap* ctrlr, int buttonIndex, u32 buttonValue,
\*                    const char* buttonName)
\* on the map c that ptr refers to when it is not NULL: what it returns and the
\* map it leaves.
TestMapButton(c, ptr, buttonIndex, buttonValue, buttonName) ==
  IF ptr = NULL \/ buttonIndex < 0 \/ buttonIndex >= MAXMAP
    THEN [ret |-> FALSE, ctrlr |-> c]
    ELSE IF buttonIndex >= c.num_btns
      THEN [ret |-> FALSE, ctrlr |-> c]
      ELSE [ret |-> TRUE,
            ctrlr |-> [c EXCEPT !.map[buttonIndex] =
                                   [btn |-> buttonValue, name |-> buttonName]]]

Normalize_ZeroMatches(m, consoleType, physicalType, raw) ==
  { i \in Slots : /\ i < SlotCount(consoleType)
                  /\ BitAnd(raw, m[consoleType][physicalType][i]) =
                       m[consoleType][physicalType][i] }

\* Normalize(consoleType, physicalType, channel) on the matrix m, with raw the
\* bitmask the adapter reports for the channel: logical bit i for each slot of
\* the row whose entry is non-zero and contained in raw.
Normalize(m, consoleType, physicalType, raw) ==
  { i \in Slots : /\ i < SlotCount(consoleType)
                  /\ m[consoleType][physicalType][i] # Zero
                  /\ BitAnd(raw, m[consoleType][physicalType][i]) =
                       m[consoleType][physicalType][i] }

\* No helper has been applied and the controller map is the one the tests
\* build.
HelpersIdle ==
  /\ fn = "idle"
  /\ inp = << >>
  /\ out = << >>
  /\ ctrlr = NewCtrlrMap(3)

Init == RegistryBooted /\ InputIdle /\ HelpersIdle

\* A call ResetControls(consoleCtrl, wiiCtrl).
DoResetControls(consoleCtrl, wiiCtrl) ==
  /\ before' = btnmap
  /\ btnmap' = ResetControls(btnmap, consoleCtrl, wiiCtrl)
  /\ call' = << consoleCtrl, wiiCtrl >>
  /\ repeat' = (call = << consoleCtrl, wiiCtrl >>)
  /\ UNCHANGED remaps

\* A persisted user remap overwrites one entry of one row.
UserRemap(c, p, i, code) ==
  /\ remaps < MaxRemaps
  /\ Remappable(c, p, i)
  /\ btnmap' = [btnmap EXCEPT ![c][p][i] = code]
  /\ remaps' = remaps + 1
  /\ call' = NoCall
  /\ repeat' = FALSE
  /\ UNCHANGED before

Reset == \E consoleCtrl \in ConsoleArgs, wiiCtrl \in WiiArgs :
           DoResetControls(consoleCtrl, wiiCtrl)

Remap == \E c \in ConsoleTypes, p \in ControllerTypes, i \in Slots,
            code \in RemapCodes : UserRemap(c, p, i, code)

Next ==
  \/ Reset /\ UNCHANGED << inputVars, helperVars >>
  \/ Remap /\ UNCHANGED << inputVars, helperVars >>

Spec == Init /\ [][Next]_vars

\* One frame of the sequence: the next state of the array holds the polled
\* bitmask and is processed against the state before it.
Frame(held) ==
  /\ Len(polled) < MaxFrames
  /\ LET k == Len(states)
         mem == Append(states, [ZeroState EXCEPT !.buttons_held = held])
         r == TestProcessButtonInput(mem, k + 1, k)
     IN  /\ states' = r.mem
         /\ ret' = r.ret
         /\ args' = << k + 1, k >>
  /\ polled' = Append(polled, held)

\* A call with a missing current or previous reference.
NullCall(current, previous) ==
  /\ current = NULL \/ previous = NULL
  /\ LET r == TestProcessButtonInput(states, current, previous)
     IN  /\ states' = r.mem
         /\ ret' = r.ret
  /\ args' = << current, previous >>
  /\ UNCHANGED polled

Poll == \E held \in PolledMasks : Frame(held)

Reject == \E current \in { NULL, Len(states) }, previous \in { NULL, Len(states) } :
            NullCall(current, previous)

NextInput ==
  \/ Poll /\ UNCHANGED << registryVars, helperVars >>
  \/ Reject /\ UNCHANGED << registryVars, helperVars >>

SpecInput == Init /\ [][NextInput]_vars

\* ------------------------------------------------ registry claims

\* The pairs that have a block in ResetControls, and the codes of that block.
DefinedPairs == { << Blocks[k].con, Blocks[k].wii >> : k \in 1 .. Len(Blocks) }

AllPairs == ConsoleTypes \X ControllerTypes

Canonical(c, p) ==
  Blocks[CHOOSE k \in 1 .. Len(Blocks) : Blocks[k].con = c /\ Blocks[k].wii = p].codes

\* The first n entries of row (c, p) of matrix m, as a sequence.
RowPrefix(m, c, p, n) == [k \in 1 .. n |-> m[c][p][k - 1]]

\* Row (c, p) of btnmap holds the default sequence of its pair.
HoldsDefault(c, p) ==
  /\ << c, p >> \in DefinedPairs
  /\ RowPrefix(btnmap, c, p, Len(Canonical(c, p))) = Canonical(c, p)

\* The last operation was ResetControls with these kinds of arguments.
CalledFull == Len(call) = 2 /\ call[1] = -1

CalledConsoleOnly == Len(call) = 2 /\ call[1] \in ConsoleTypes /\ call[2] = -1

CalledPair == Len(call) = 2 /\ call[1] # -1 /\ call[2] # -1

\* C1 as stated: after ResetControls(-1, wiiCtrl), whatever wiiCtrl is and
\* whatever btnmap held, every row of every console type and every physical
\* type holds its default sequence.
C1_FullRebuildEveryRow ==
  CalledFull => \A cp \in AllPairs : HoldsDefault(cp[1], cp[2])

\* C1 amended: after ResetControls(-1, wiiCtrl), whatever wiiCtrl is and
\* whatever btnmap held, every row that has a block holds its default
\* sequence; the rows without one (the Nunchuk rows of Superscope, Mouse and
\* Justifier) are left as they were.
C1_FullRebuildDefinedRows ==
  CalledFull =>
    /\ \A cp \in DefinedPairs : HoldsDefault(cp[1], cp[2])
    /\ \A cp \in AllPairs \ DefinedPairs :
         btnmap[cp[1]][cp[2]] = before[cp[1]][cp[2]]

\* A full rebuild called with a specific wiiCtrl on a matrix whose Wiimote pad
\* row held a user remap in its unmapped slot.
C1_Witness ==
  /\ call = << -1, CTRLR_CLASSIC >>
  /\ before[CTRL_PAD][CTRLR_WIIMOTE][4] = WPAD_BUTTON_MINUS
  /\ btnmap[CTRL_PAD][CTRLR_WIIMOTE][4] = Zero

\* Row (c, p) holds exactly SlotCount(c) default entries written by the last
\* call: its block has that many codes, they are in place, and the entries
\* beyond them are as they were.
Populated(c, p) ==
  /\ << c, p >> \in DefinedPairs
  /\ Len(Canonical(c, p)) = SlotCount(c)
  /\ \A i \in Slots :
       btnmap[c][p][i] = IF i < SlotCount(c) THEN Canonical(c, p)[i + 1]
                         ELSE before[c][p][i]

\* C2 as stated: after a full rebuild each of the 24 rows is populated with
\* exactly SlotCount(consoleType) entries.
C2_All24RowsPopulated ==
  CalledFull => \A cp \in AllPairs : Populated(cp[1], cp[2])

\* C2 amended: after a full rebuild each of the 21 rows that have a block
\* (every pair except the Nunchuk rows of Superscope, Mouse and Justifier) is
\* populated with exactly SlotCount(consoleType) entries: 12, 6, 2, 3.
C2_DefinedRowsPopulated ==
  /\ Cardinality(DefinedPairs) = 21
  /\ CalledFull => \A cp \in DefinedPairs : Populated(cp[1], cp[2])

\* A full rebuild of a matrix in which a Superscope row held a user remap.
C2_Witness ==
  /\ CalledFull
  /\ before[CTRL_SCOPE][CTRLR_GCPAD][0] = WPAD_BUTTON_MINUS
  /\ btnmap[CTRL_SCOPE][CTRLR_GCPAD][0] = PAD_BUTTON_A

\* C3 as stated: ResetControls(c, -1) with a specific console type c leaves
\* every row of c that has a default holding it, and the rows of the other
\* console types unchanged.
C3_ConsoleOnlyRebuildsItsRows ==
  CalledConsoleOnly =>
    /\ \A cp \in DefinedPairs : cp[1] = call[1] => HoldsDefault(cp[1], cp[2])
    /\ \A cp \in AllPairs :
         cp[1] # call[1] => btnmap[cp[1]][cp[2]] = before[cp[1]][cp[2]]

\* C3 amended: ResetControls(c, -1) with a specific console type c matches no
\* block: no row is rebuilt, the rows of c and of every other console type
\* are unchanged.
C3_ConsoleOnlyIsNoOp == CalledConsoleOnly => btnmap = before

\* ResetControls(CTRL_PAD, -1) on a matrix whose Wiimote pad row held a user
\* remap, which is still there.
C3_Witness ==
  /\ call = << CTRL_PAD, -1 >>
  /\ before[CTRL_PAD][CTRLR_WIIMOTE][0] = WPAD_BUTTON_MINUS
  /\ btnmap[CTRL_PAD][CTRLR_WIIMOTE][0] = WPAD_BUTTON_MINUS

\* C4: ResetControls(c, p) for a pair that has a block leaves row (c, p) equal
\* to its default sequence whatever the row held, and a second
\* ResetControls(c, p) right after the first leaves the row as the first did.
C4_PairRebuildIdempotent ==
  CalledPair =>
    /\ << call[1], call[2] >> \in DefinedPairs => HoldsDefault(call[1], call[2])
    /\ (repeat /\ << call[1], call[2] >> \in AllPairs) =>
         btnmap[call[1]][call[2]] = before[call[1]][call[2]]

\* The Wiimote pad row rebuilt twice in a row, after a user remap.
C4_Witness ==
  /\ call = << CTRL_PAD, CTRLR_WIIMOTE >>
  /\ repeat
  /\ remaps > 0
  /\ HoldsDefault(CTRL_PAD, CTRLR_WIIMOTE)

\* C5: ResetControls(c, p) with specific c and p leaves every entry of every
\* row other than (c, p) unchanged.
C5_PairRebuildIsolated ==
  CalledPair =>
    \A cp \in AllPairs :
      cp # << call[1], call[2] >> => btnmap[cp[1]][cp[2]] = before[cp[1]][cp[2]]

\* The Wiimote pad row rebuilt (its remapped slot reset) while another row of
\* the same console type and controller family is not at its default.
C5_Witness ==
  /\ call = << CTRL_PAD, CTRLR_WIIMOTE >>
  /\ before[CTRL_PAD][CTRLR_NUNCHUK][0] = WPAD_BUTTON_MINUS
  /\ btnmap[CTRL_PAD][CTRLR_NUNCHUK][0] = WPAD_BUTTON_MINUS

\* C6: ResetControls(c, p) with c and p both other than -1 and (c, p) not a
\* pair that has a block (an undefined pairing, or a value outside the enums)
\* returns with the whole matrix unchanged.
C6_UndefinedPairNoOp ==
  (CalledPair /\ << call[1], call[2] >> \notin DefinedPairs) => btnmap = before

\* ResetControls(CTRL_SCOPE, CTRLR_NUNCHUK) on a matrix in which the Wiimote
\* row of Superscope held a user remap.
C6_Witness ==
  /\ call = << CTRL_SCOPE, CTRLR_NUNCHUK >>
  /\ before[CTRL_SCOPE][CTRLR_WIIMOTE][0] = WPAD_BUTTON_MINUS

\* --------------------------------------------------- input claims

\* Number of frames processed so far; frame k had states[k] as previous and
\* states[k + 1] as current.
Frames == Len(polled)

\* The bitmask held in frame k of the sequence; 0 before the first frame.
HeldAt(k) == IF k = 0 THEN Zero ELSE polled[k]

\* C7: every successful step leaves pressed = current & ~previous and
\* released = previous & ~current, bit by bit: a bit is pressed iff it is held
\* now and was not before, released iff it was held before and is not now;
\* 0 -> A gives (A, 0), A -> 0 gives (0, A), A|B -> A|C gives (C, B).
C7_EdgeComputation ==
  \A k \in 1 .. Frames :
    LET cur == states[k + 1]
        prev == states[k]
    IN  /\ \A b \in U32Bits :
             /\ b \in cur.buttons_pressed <=>
                  (b \in cur.buttons_held /\ b \notin prev.buttons_held)
             /\ b \in cur.buttons_released <=>
                  (b \in prev.buttons_held /\ b \notin cur.buttons_held)
        /\ (prev.buttons_held = Zero /\ cur.buttons_held = SNES_A) =>
             (cur.buttons_pressed = SNES_A /\ cur.buttons_released = Zero)
        /\ (prev.buttons_held = SNES_A /\ cur.buttons_held = Zero) =>
             (cur.buttons_pressed = Zero /\ cur.buttons_released = SNES_A)
        /\ (prev.buttons_held = BitOr(SNES_A, SNES_B)
              /\ cur.buttons_held = BitOr(SNES_A, SNES_START)) =>
             (cur.buttons_pressed = SNES_START /\ cur.buttons_released = SNES_B)

\* A successful step from A|B held to A|START held.
C7_Witness ==
  /\ Frames >= 2
  /\ ret
  /\ states[Frames].buttons_held = BitOr(SNES_A, SNES_B)
  /\ states[Frames + 1].buttons_held = BitOr(SNES_A, SNES_START)
  /\ states[Frames + 1].buttons_pressed = SNES_START
  /\ states[Frames + 1].buttons_released = SNES_B

C9_NullRejected ==
  [][(Len(args') = 2 /\ (args'[1] = NULL \/ args'[2] = NULL))
       => (ret' = FALSE /\ states' = states)]_vars

\* A rejected call that was given a current state with non-zero deltas.
C9_Witness ==
  /\ Len(args) = 2
  /\ args[1] # NULL
  /\ args[2] = NULL
  /\ ret = FALSE
  /\ states[args[1]].buttons_pressed # Zero
  /\ states[args[1]].buttons_released # Zero

\* C10: in the frame sequence starting from previous = 0, a button held from
\* frame i through frame j (and not in frame i - 1) is in pressed in frame i and
\* in no later frame of the run, is in released in no frame of the run, and is
\* in released in frame j + 1 if it is not held there; a button is in released
\* only in the first frame after a frame in which it was held.
C10_HeldButtonEdges ==
  \A b \in U32Bits :
    /\ \A i \in 1 .. Frames, j \in 1 .. Frames :
         (/\ i <= j
          /\ b \notin HeldAt(i - 1)
          /\ \A m \in i .. j : b \in polled[m]) =>
           /\ b \in states[i + 1].buttons_pressed
           /\ \A m \in (i + 1) .. j : b \notin states[m + 1].buttons_pressed
           /\ \A m \in i .. j : b \notin states[m + 1].buttons_released
           /\ (j < Frames /\ b \notin polled[j + 1]) =>
                b \in states[j + 2].buttons_released
    /\ \A m \in 1 .. Frames :
         b \in states[m + 1].buttons_released =>
           (b \in HeldAt(m - 1) /\ b \notin polled[m])

\* The sequence of the test: A, then A|B, then B.
C10_Witness ==
  /\ polled = << SNES_A, BitOr(SNES_A, SNES_B), SNES_B >>
  /\ states[3].buttons_pressed = SNES_B
  /\ states[4].buttons_released = SNES_A

\* ------------------------------------------------ helper functions

\* The fields of TestGCSettings that TestFixInvalidSettings reads, and two
\* int fields that it does not (LoadMethod, FrameSkip), with the values
\* TestDefaultSettings gives them. zoomHor and zoomVert are floats, held here
\* in quarters: 4 is 1.0f, 2 is 0.5f, 8 is 2.0f.
DefaultSettings ==
  [AutoLoad |-> 1, AutoSave |-> 1, LoadMethod |-> 0, zoomHor |-> 4,
   zoomVert |-> 4, videomode |-> 0, render |-> 0, FrameSkip |-> 0,
   widescreen |-> 0, MusicVolume |-> 100, SFXVolume |-> 100, Rumble |-> 1,
   TurboModeEnabled |-> 0]

Clamp(v, lo, hi) ==
  LET v1 == IF v < lo THEN lo ELSE v
  IN  IF v1 > hi THEN hi ELSE v1

ResetIfOutside(v, lo, hi, dflt) == IF v < lo \/ v > hi THEN dflt ELSE v

TestFixInvalidSettings_RumbleOff(settings, s) ==
  IF settings = NULL
    THEN s
    ELSE [s EXCEPT
            !.MusicVolume = Clamp(@, 0, 100),
            !.SFXVolume = Clamp(@, 0, 100),
            !.zoomHor = Clamp(@, 2, 8),
            !.zoomVert = Clamp(@, 2, 8),
            !.videomode = ResetIfOutside(@, 0, 5, 0),
            !.render = ResetIfOutside(@, 0, 4, 0),
            !.AutoLoad = ResetIfOutside(@, 0, 1, 1),
            !.AutoSave = ResetIfOutside(@, 0, 1, 1),
            !.widescreen = ResetIfOutside(@, 0, 1, 0),
            !.Rumble = ResetIfOutside(@, 0, 1, 0),
            !.TurboModeEnabled = ResetIfOutside(@, 0, 1, 0)]

\* void TestFixInvalidSettings(TestGCSettings* settings), with s the settings
\* that the pointer refers to when it is not NULL: the settings it leaves.
TestFixInvalidSettings(settings, s) ==
  IF settings = NULL
    THEN s
    ELSE [s EXCEPT
            !.MusicVolume = Clamp(@, 0, 100),
            !.SFXVolume = Clamp(@, 0, 100),
            !.zoomHor = Clamp(@, 2, 8),
            !.zoomVert = Clamp(@, 2, 8),
            !.videomode = ResetIfOutside(@, 0, 5, 0),
            !.render = ResetIfOutside(@, 0, 4, 0),
            !.AutoLoad = ResetIfOutside(@, 0, 1, 1),
            !.AutoSave = ResetIfOutside(@, 0, 1, 1),
            !.widescreen = ResetIfOutside(@, 0, 1, 0),
            !.Rumble = ResetIfOutside(@, 0, 1, 1),
            !.TurboModeEnabled = ResetIfOutside(@, 0, 1, 0)]

\* Values given to a field before the call: the values of the tests, the
\* bounds of each range and their neighbours.
FieldSamples(f) ==
  CASE f \in { "MusicVolume", "SFXVolume" } -> { -10, -1, 0, 50, 101, 150, 2147483647 }
    [] f \in { "zoomHor", "zoomVert" } -> { 1, 2, 8, 12 }
    [] f = "videomode" -> { -1, 3, 5, 6, 10 }
    [] f = "render" -> { -1, 2, 4, 5 }
    [] f \in { "LoadMethod", "FrameSkip" } -> { -3, 7 }
    [] OTHER -> { -1, 0, 1, 2 }

\* How many fields differ from their default when the function is called.
MaxChanged == 2

RECURSIVE SettingsVariants(_)
SettingsVariants(k) ==
  IF k = 0
    THEN { DefaultSettings }
    ELSE LET less == SettingsVariants(k - 1)
         IN  less \cup UNION { { [s EXCEPT ![f] = v] : v \in FieldSamples(f) } :
                                 s \in less, f \in DOMAIN DefaultSettings }

\* A buffer of n chars that all hold byte.
Filled(n, byte) == [i \in 1 .. n |-> byte]

\* bool TestSafeBufferCopy(void* dest, size_t destSize, const void* src,
\*                         size_t srcSize)
\* with buf the destSize chars that dest points to when it is not NULL and
\* chars the chars that src points to when it is not NULL: what it returns
\* and the chars it leaves in the buffer. memcpy copies
\* copySize = min(srcSize, destSize) chars; memset clears the rest only when
\* copySize < destSize.
TestSafeBufferCopy(dest, buf, destSize, src, chars, srcSize) ==
  IF dest = NULL \/ src = NULL \/ destSize = 0
    THEN [ret |-> FALSE, buf |-> buf]
    ELSE LET copySize == IF srcSize < destSize THEN srcSize ELSE destSize
         IN  [ret |-> TRUE,
              buf |-> [i \in 1 .. destSize |->
                         IF i <= copySize THEN chars[i] ELSE 0]]

\* What strlen(dest) can give on a buffer of chars, << n >> for the length n
\* and << >> for no value: the number of chars before the first 0 when there
\* is one; when there is none strlen reads past the end of the array, which is
\* undefined: any length from Len(buf) on, or a fault.
StrlenOutcomes(buf) ==
  IF \E i \in 1 .. Len(buf) : buf[i] = 0
    THEN { << (CHOOSE i \in 1 .. Len(buf) :
                 buf[i] = 0 /\ \A j \in 1 .. (i - 1) : buf[j] # 0) - 1 >> }
    ELSE { << Len(buf) >>, << Len(buf) + 1 >>, << Len(buf) + 7 >>, << >> }

\* The strings and buffer sizes of the buffer tests, and shorter ones: a string
\* of n chars is the chars 65 .. 64 + n.
SrcLengths == { 0, 2, 4, 9, 10, 12 }

DestSizes == { 0, 1, 4, 10 }

CopyInputs ==
  { << dest, Filled(destSize, fill), src, [i \in 1 .. n |-> 64 + i] >> :
      dest \in { NULL, 1 }, src \in { NULL, 1 }, destSize \in DestSizes,
      fill \in { 0, 88 }, n \in SrcLengths }

\* Axis values and thresholds the analog helpers are applied to: the values of
\* the tests, their neighbours, zero and the ends of the s16 range.
AxisSamples ==
  { -32768, -60, -51, -50, -49, -25, -20, -19, -10, 0,
    10, 15, 19, 20, 25, 49, 50, 51, 60, 32767 }

ThresholdSamples == { -32768, -50, -1, 0, 1, 20, 50, 32767 }

\* Bitmasks the combination validator is applied to.
ComboSamples == SUBSET (SNES_A \cup SNES_B \cup SNES_START \cup SNES_L)

\* Values the GC-to-SNES lookup is applied to: every single bit of the low
\* half, 0, values holding several bits, and the top bit.
GCSamples ==
  { { k } : k \in 0 .. 15 } \cup
  { Zero, U32(3), U32(257), U32(39321), U32(65535), { 31 }, U32Bits }

\* Slots whose entries are combined into the raw bitmasks of the adapter.
SampleSlots == { 0, 1, 2, 4, 5 }

\* The bits that belong to no entry of row (c, p) of matrix m.
Foreign(m, c, p) == U32Bits \ UNION { m[c][p][i] : i \in Slots }

\* Raw bitmasks for row (c, p): the entries of some of the sampled slots held
\* together, alone or with every bit that is foreign to the row, and each
\* entry of the row held alone.
RawSamples(m, c, p) ==
  { UNION { m[c][p][i] : i \in S } \cup extra :
      S \in SUBSET SampleSlots, extra \in { Zero, Foreign(m, c, p) } }
  \cup { m[c][p][i] : i \in Slots }

\* Required combinations given to the validator after Normalize.
RequiredSamples == { Zero, { 0 }, { 4 }, { 5 }, { 4, 5 }, { 0, 4 }, { 1, 5 } }

HelperInputs(f) ==
  CASE f = "Normalize" ->
         UNION { { << c, p, raw >> : raw \in RawSamples(btnmap, c, p) } :
                   c \in ConsoleTypes, p \in ControllerTypes }
    [] f = "TestValidateButtonCombo" -> ComboSamples \X ComboSamples
    [] f = "TestStickToDigital" -> AxisSamples \X AxisSamples \X ThresholdSamples
    [] f = "TestStickDeadzone" -> AxisSamples \X AxisSamples \X ThresholdSamples
    [] f = "TestMapGCButtonToSNES" -> { << g >> : g \in GCSamples }
    [] f = "TestSafeBufferCopy" -> CopyInputs
    [] f = "TestFixInvalidSettings" ->
         { << NULL, DefaultSettings >> } \cup
         { << 1, s >> : s \in SettingsVariants(MaxChanged) }

HelperNames ==
  { "Normalize", "TestValidateButtonCombo", "TestStickToDigital",
    "TestStickDeadzone", "TestMapGCButtonToSNES", "TestSafeBufferCopy",
    "TestFixInvalidSettings" }

\* A helper and its arguments have been chosen and it has not run yet.
InitHelpers ==
  /\ RegistryBooted
  /\ InputIdle
  /\ ctrlr = NewCtrlrMap(3)
  /\ fn \in HelperNames
  /\ inp \in HelperInputs(fn)
  /\ out = << >>

Pending(f) == fn = f /\ out = << >>

CallNormalize ==
  /\ Pending("Normalize")
  /\ out' = << Normalize(btnmap, inp[1], inp[2], inp[3]) >>
  /\ UNCHANGED << fn, inp, ctrlr >>

\* The combination validator applied to the bitmask Normalize produced.
ValidateNormalized ==
  /\ fn = "Normalize"
  /\ Len(out) = 1
  /\ \E required \in RequiredSamples :
       /\ fn' = "ValidateNormalized"
       /\ inp' = Append(inp, required)
       /\ out' = Append(out, TestValidateButtonCombo(out[1], required))
  /\ UNCHANGED ctrlr

CallValidateButtonCombo ==
  /\ Pending("TestValidateButtonCombo")
  /\ out' = << TestValidateButtonCombo(inp[1], inp[2]) >>
  /\ UNCHANGED << fn, inp, ctrlr >>

CallStickToDigital ==
  /\ Pending("TestStickToDigital")
  /\ out' = << TestStickToDigital(inp[1], inp[2], inp[3]) >>
  /\ UNCHANGED << fn, inp, ctrlr >>

CallStickDeadzone ==
  /\ Pending("TestStickDeadzone")
  /\ out' = << TestStickDeadzone(inp[1], inp[2], inp[3]) >>
  /\ UNCHANGED << fn, inp, ctrlr >>

CallMapGCButtonToSNES ==
  /\ Pending("TestMapGCButtonToSNES")
  /\ out' = << TestMapGCButtonToSNES(inp[1]) >>
  /\ UNCHANGED << fn, inp, ctrlr >>

\* TestSafeBufferCopy(dest, sizeof(dest), src, strlen(src)) followed by
\* strlen(dest) when the copy was made.
CallSafeBufferCopy ==
  /\ Pending("TestSafeBufferCopy")
  /\ LET r == TestSafeBufferCopy(inp[1], inp[2], Len(inp[2]),
                                 inp[3], inp[4], Len(inp[4]))
     IN  \E n \in (IF r.ret THEN StrlenOutcomes(r.buf) ELSE { << >> }) :
           out' = << [ret |-> r.ret, buf |-> r.buf, strlen |-> n] >>
  /\ UNCHANGED << fn, inp, ctrlr >>

\* TestFixInvalidSettings(&settings), called on the settings it left when it
\* is called a second time.
CallFixInvalidSettings ==
  /\ fn = "TestFixInvalidSettings"
  /\ Len(out) < 2
  /\ out' = Append(out, TestFixInvalidSettings(
                          inp[1], IF out = << >> THEN inp[2] ELSE out[1]))
  /\ UNCHANGED << fn, inp, ctrlr >>

\* TestStickToDigital applied to the arguments TestStickDeadzone was applied
\* to, the deadzone taken as the threshold.
DigitalOfSame ==
  /\ fn = "TestStickDeadzone"
  /\ Len(out) = 1
  /\ fn' = "DeadzoneAndDigital"
  /\ out' = Append(out, TestStickToDigital(inp[1], inp[2], inp[3]))
  /\ UNCHANGED << inp, ctrlr >>

NextHelpers ==
  \/ CallNormalize /\ UNCHANGED << registryVars, inputVars >>
  \/ ValidateNormalized /\ UNCHANGED << registryVars, inputVars >>
  \/ CallValidateButtonCombo /\ UNCHANGED << registryVars, inputVars >>
  \/ CallStickToDigital /\ UNCHANGED << registryVars, inputVars >>
  \/ CallStickDeadzone /\ UNCHANGED << registryVars, inputVars >>
  \/ CallMapGCButtonToSNES /\ UNCHANGED << registryVars, inputVars >>
  \/ CallSafeBufferCopy /\ UNCHANGED << registryVars, inputVars >>
  \/ CallFixInvalidSettings /\ UNCHANGED << registryVars, inputVars >>
  \/ DigitalOfSame /\ UNCHANGED << registryVars, inputVars >>

SpecHelpers == InitHelpers /\ [][NextHelpers]_vars

\* The helper f has run; its arguments are inp and its result is out[1].
Applied(f) == fn = f /\ Len(out) = 1

\* ------------------------------------------------ helper claims

\* C11: logical bit i of the result of Normalize is set if and only if i is a
\* slot of the row, the row's entry for slot i is non-zero and
\* (raw & entry) == entry; so raw = 0 gives 0, and the raw bits that are in no
\* entry of the row do not change the result.
C11_NormalizeBitwise ==
  Applied("Normalize") =>
    LET c == inp[1]
        p == inp[2]
        raw == inp[3]
    IN  /\ \A i \in U32Bits :
             i \in out[1] <=> /\ i \in Slots
                              /\ i < SlotCount(c)
                              /\ btnmap[c][p][i] # Zero
                              /\ BitAnd(raw, btnmap[c][p][i]) = btnmap[c][p][i]
        /\ raw = Zero => out[1] = Zero
        /\ out[1] = Normalize(btnmap, c, p, raw \ Foreign(btnmap, c, p))
        /\ out[1] = Normalize(btnmap, c, p, raw \cup Foreign(btnmap, c, p))

\* Normalize has run on a row with a zero entry, with a raw bitmask that holds
\* some entries of the row, misses others and has bits foreign to the row.
C11_Witness ==
  /\ Applied("Normalize")
  /\ \E i \in 0 .. (SlotCount(inp[1]) - 1) : btnmap[inp[1]][inp[2]][i] = Zero
  /\ \E i \in 0 .. (SlotCount(inp[1]) - 1) :
        /\ btnmap[inp[1]][inp[2]][i] # Zero
        /\ BitAnd(inp[3], btnmap[inp[1]][inp[2]][i]) = Zero
  /\ BitAnd(inp[3], Foreign(btnmap, inp[1], inp[2])) # Zero
  /\ out[1] # Zero

\* C12: with the canonical (Pad, Wiimote) row, whatever the raw bitmask, the
\* normalized bitmask has logical bits 4 and 5 clear, and the combination
\* validator applied to it is false for every required combination that
\* includes slot 4 or slot 5.
C12_UnmappedNeverSatisfied ==
  ( /\ fn \in { "Normalize", "ValidateNormalized" }
    /\ Len(out) >= 1
    /\ inp[1] = CTRL_PAD
    /\ inp[2] = CTRLR_WIIMOTE
    /\ HoldsDefault(CTRL_PAD, CTRLR_WIIMOTE) ) =>
      /\ 4 \notin out[1]
      /\ 5 \notin out[1]
      /\ (fn = "ValidateNormalized" /\ (4 \in inp[4] \/ 5 \in inp[4]))
           => out[2] = FALSE

\* Every sampled button of the Wiimote is held with every foreign bit, slot 0
\* is normalized, and the combination of slots 0 and 4 is refused.
C12_Witness ==
  /\ fn = "ValidateNormalized"
  /\ inp[1] = CTRL_PAD
  /\ inp[2] = CTRLR_WIIMOTE
  /\ Foreign(btnmap, CTRL_PAD, CTRLR_WIIMOTE) \subseteq inp[3]
  /\ { 0, 1, 2 } \subseteq out[1]
  /\ inp[4] = { 0, 4 }
  /\ out[2] = FALSE

\* The slots of row (c, p) of btnmap whose entry is 0.
ZeroSlots(c, p) == { i \in 0 .. (SlotCount(c) - 1) : btnmap[c][p][i] = Zero }

ZeroSlotsByDefault(c, p) ==
  IF c = CTRL_PAD /\ p = CTRLR_WIIMOTE THEN { 4, 5 } ELSE { }

\* C13 as stated: after a full rebuild the (Pad, Wiimote) row is the only row
\* of the matrix with entries equal to 0, and it has exactly two, in slots 4
\* and 5.
C13_OneRowOfMatrixHasZeros ==
  CalledFull =>
    \A cp \in AllPairs : ZeroSlots(cp[1], cp[2]) = ZeroSlotsByDefault(cp[1], cp[2])

\* C13 amended: after a full rebuild, among the 21 rows that have a block the
\* (Pad, Wiimote) row is the only one with entries equal to 0, and it has
\* exactly two, in slots 4 and 5; the Nunchuk rows of Superscope, Mouse and
\* Justifier are not rebuilt and keep what they held, which is all zeros as
\* long as no remap has written to them.
C13_OneRebuiltRowHasZeros ==
  CalledFull =>
    /\ \A cp \in DefinedPairs :
         ZeroSlots(cp[1], cp[2]) = ZeroSlotsByDefault(cp[1], cp[2])
    /\ \A cp \in AllPairs \ DefinedPairs :
         /\ btnmap[cp[1]][cp[2]] = before[cp[1]][cp[2]]
         /\ remaps = 0 => ZeroSlots(cp[1], cp[2]) = 0 .. (SlotCount(cp[1]) - 1)

\* A full rebuild of a matrix in which slot 4 of the (Pad, Wiimote) row held a
\* user remap, while the Nunchuk row of the Mouse is still all zeros.
C13_Witness ==
  /\ CalledFull
  /\ before[CTRL_PAD][CTRLR_WIIMOTE][4] = WPAD_BUTTON_MINUS
  /\ btnmap[CTRL_PAD][CTRLR_WIIMOTE][4] = Zero
  /\ ZeroSlots(CTRL_MOUSE, CTRLR_NUNCHUK) = { 0, 1 }

\* C14: TestStickToDigital(x, y, threshold) sets Left iff x < -threshold, Right
\* iff x > threshold, Down iff y < -threshold, Up iff y > threshold, and no
\* other bit; the axes are decided independently, and an axis value with
\* -threshold <= value <= threshold contributes no bit. (-60, 0, 50) gives
\* Left, (60, 60, 50) gives Right | Up, (10, -10, 50) gives 0.
C14_StickToDigital ==
  Applied("TestStickToDigital") =>
    LET x == inp[1]
        y == inp[2]
        threshold == inp[3]
    IN  /\ \A b \in U32Bits :
             b \in out[1] <=> \/ b \in SNES_LEFT /\ x < -threshold
                              \/ b \in SNES_RIGHT /\ x > threshold
                              \/ b \in SNES_DOWN /\ y < -threshold
                              \/ b \in SNES_UP /\ y > threshold
        /\ (-threshold <= x /\ x <= threshold)
             => BitAnd(out[1], BitOr(SNES_LEFT, SNES_RIGHT)) = Zero
        /\ (-threshold <= y /\ y <= threshold)
             => BitAnd(out[1], BitOr(SNES_DOWN, SNES_UP)) = Zero
        /\ inp = << -60, 0, 50 >> => out[1] = SNES_LEFT
        /\ inp = << 60, 60, 50 >> => out[1] = BitOr(SNES_RIGHT, SNES_UP)
        /\ inp = << 10, -10, 50 >> => out[1] = Zero

\* One axis exactly at -threshold and the other beyond the threshold: only the
\* second gives a bit.
C14_Witness ==
  /\ Applied("TestStickToDigital")
  /\ inp = << -50, 51, 50 >>
  /\ out[1] = SNES_UP

\* C15: TestStickDeadzone(x, y, deadzone) is true if and only if |x| < deadzone
\* and |y| < deadzone, for every s16 x, y and deadzone: one axis outside, or
\* exactly at the deadzone value, makes it false; so does x or y = -32768, and
\* so does a deadzone <= 0.
C15_InDeadzone ==
  Applied("TestStickDeadzone") =>
    LET x == inp[1]
        y == inp[2]
        deadzone == inp[3]
    IN  /\ out[1] <=> /\ -deadzone < x /\ x < deadzone
                      /\ -deadzone < y /\ y < deadzone
        /\ (x = deadzone \/ x = -deadzone \/ y = deadzone \/ y = -deadzone)
             => out[1] = FALSE
        /\ (x = -32768 \/ y = -32768) => out[1] = FALSE
        /\ deadzone <= 0 => out[1] = FALSE
        /\ inp = << 10, 15, 20 >> => out[1] = TRUE
        /\ inp = << 25, 10, 20 >> => out[1] = FALSE

\* x is exactly at the deadzone value while y is inside it.
C15_Witness ==
  /\ Applied("TestStickDeadzone")
  /\ inp = << -20, 19, 20 >>
  /\ out[1] = FALSE

\* C16: TestValidateButtonCombo(held, required) is true if and only if
\* (held & required) == required: true for held implies true for held | extra,
\* true for required = 0 whatever is held, false as soon as one required bit
\* is not held.
C16_ValidateCombo ==
  Applied("TestValidateButtonCombo") =>
    LET held == inp[1]
        required == inp[2]
    IN  /\ out[1] <=> (\A b \in U32Bits : b \in required => b \in held)
        /\ out[1] => \A extra \in ComboSamples :
                       TestValidateButtonCombo(BitOr(held, extra), required)
        /\ required = Zero => out[1] = TRUE
        /\ (\E b \in required : b \notin held) => out[1] = FALSE

\* A combination of two buttons accepted while a third button is held too.
C16_Witness ==
  /\ Applied("TestValidateButtonCombo")
  /\ inp[2] = BitOr(SNES_A, SNES_B)
  /\ inp[1] = BitOr(inp[2], SNES_START)
  /\ out[1] = TRUE

\* The source codes that have a case in the remap table, and the SNES buttons.
GCButtons ==
  { U32(1), U32(2), U32(4), U32(8), U32(16), U32(32), U32(256), U32(4096),
    U32(8192), U32(16384), U32(32768) }

SNESButtons ==
  { SNES_B, SNES_Y, SNES_SELECT, SNES_START, SNES_UP, SNES_DOWN, SNES_LEFT,
    SNES_RIGHT, SNES_A, SNES_X, SNES_L, SNES_R }

\* C17: in the GC-to-SNES remap table every defined source code maps to
\* exactly one destination code, which is a non-zero SNES button; every
\* undefined source code, 0 included, maps to 0; 0 is never the destination of
\* a defined source, so a result of 0 always means that the source is
\* undefined.
C17_RemapTable ==
  /\ \A j, k \in 1 .. Len(GCToSNES) :
       GCToSNES[j][1] = GCToSNES[k][1] => GCToSNES[j][2] = GCToSNES[k][2]
  /\ { GCToSNES[k][1] : k \in 1 .. Len(GCToSNES) } = GCButtons
  /\ Applied("TestMapGCButtonToSNES") =>
       /\ inp[1] \in GCButtons => (out[1] \in SNESButtons /\ out[1] # Zero)
       /\ inp[1] \notin GCButtons => out[1] = Zero
       /\ out[1] = Zero <=> inp[1] \notin GCButtons

\* The source code of Start has been looked up.
C17_Witness ==
  /\ Applied("TestMapGCButtonToSNES")
  /\ inp[1] = U32(256)
  /\ out[1] = SNES_START

\* The table entries whose source code is contained in raw.
ContainedSources(raw) ==
  { k \in 1 .. Len(GCToSNES) : BitAnd(raw, GCToSNES[k][1]) = GCToSNES[k][1] }

\* C18 as stated: the result of the cross-family remapping is the OR of the
\* destination codes of every table entry whose source code is contained in
\* raw, so that a raw value holding two defined source bits gives both
\* destination bits.
C18_BitTestThenOr ==
  Applied("TestMapGCButtonToSNES") =>
    out[1] = BitTestThenOr(GCToSNES, inp[1])

\* C18 amended: the cross-family remapping is a lookup of the exact value: the
\* result is the destination code of the table entry whose source code equals
\* raw, and 0 when there is none; a raw value holding two defined source bits
\* gives 0, and the result is the bit-test-then-OR of the table only when raw
\* is a defined source code or contains none.
C18_ExactLookup ==
  Applied("TestMapGCButtonToSNES") =>
    /\ \A k \in 1 .. Len(GCToSNES) :
         inp[1] = GCToSNES[k][1] => out[1] = GCToSNES[k][2]
    /\ (\A k \in 1 .. Len(GCToSNES) : inp[1] # GCToSNES[k][1]) => out[1] = Zero
    /\ Cardinality(ContainedSources(inp[1])) >= 2 => out[1] = Zero
    /\ out[1] = BitTestThenOr(GCToSNES, inp[1])
         <=> (inp[1] \in GCButtons \/ ContainedSources(inp[1]) = { })

\* The source codes of A and B held together have been looked up.
C18_Witness ==
  /\ Applied("TestMapGCButtonToSNES")
  /\ inp[1] = U32(3)
  /\ Cardinality(ContainedSources(inp[1])) = 2
  /\ out[1] = Zero

\* ------------------------------------------------ controller map

\* Arguments TestMapButton is called with: the indexes and the buttons of the
\* tests, the last index of the array, and maps with no, three and fifteen
\* usable slots.
NumBtnsSamples == { 0, 3, MAXMAP }

IndexSamples == { -1, 0, 2, 3, MAXMAP - 1, MAXMAP }

ButtonSamples == { << U32(256), "A Button" >>, << U32(512), "B Button" >> }

\* A controller map with unset entries and no call made yet.
InitMap ==
  /\ RegistryBooted
  /\ InputIdle
  /\ fn = "idle"
  /\ inp = << >>
  /\ out = << >>
  /\ ctrlr \in { NewCtrlrMap(n) : n \in NumBtnsSamples }

\* A call TestMapButton(ptr, buttonIndex, buttonValue, buttonName), where ptr
\* is nullptr or &ctrlr.
MapButton(ptr, buttonIndex, buttonValue, buttonName) ==
  LET r == TestMapButton(ctrlr, ptr, buttonIndex, buttonValue, buttonName)
  IN  /\ ctrlr' = r.ctrlr
      /\ out' = << r.ret >>
      /\ inp' = << ptr, buttonIndex, buttonValue, buttonName >>
      /\ fn' = "TestMapButton"

CallMapButton ==
  \E ptr \in { NULL, 1 }, buttonIndex \in IndexSamples, b \in ButtonSamples :
    MapButton(ptr, buttonIndex, b[1], b[2])

NextMap == CallMapButton /\ UNCHANGED << registryVars, inputVars >>

SpecMap == InitMap /\ [][NextMap]_vars

\* C20: a call of TestMapButton with a null map or with an index that is
\* negative, >= 15 or >= num_btns returns false and changes no entry of the
\* map; every other call returns true and leaves the given code and name in
\* the targeted slot, with every other slot, num_btns and type unchanged.
C20_MapButtonRejectsOutOfRange ==
  [][fn' = "TestMapButton" =>
       LET ptr == inp'[1]
           idx == inp'[2]
           rejected == \/ ptr = NULL
                       \/ idx < 0
                       \/ idx >= 15
                       \/ idx >= ctrlr.num_btns
       IN  /\ rejected => (out'[1] = FALSE /\ ctrlr' = ctrlr)
           /\ ~rejected =>
                /\ out'[1] = TRUE
                /\ ctrlr'.map[idx] = [btn |-> inp'[3], name |-> inp'[4]]
                /\ \A i \in (0 .. 14) \ { idx } : ctrlr'.map[i] = ctrlr.map[i]
                /\ ctrlr'.num_btns = ctrlr.num_btns
                /\ ctrlr'.type = ctrlr.type]_vars

\* A call with the index equal to num_btns has been rejected on a map whose
\* slots 0 and 2 had been mapped before.
C20_Witness ==
  /\ fn = "TestMapButton"
  /\ ctrlr.num_btns = 3
  /\ inp[1] # NULL
  /\ inp[2] = 3
  /\ out[1] = FALSE
  /\ ctrlr.map[0] = [btn |-> U32(256), name |-> "A Button"]
  /\ ctrlr.map[2] = [btn |-> U32(512), name |-> "B Button"]
  /\ ctrlr.map[3] = [btn |-> Zero, name |-> ""]

\* ------------------------------------------------ adapter and pipeline

AdapterRaw_Stale(scanned, held) == held

\* What the pipeline takes as the raw bitmask of the channel: the bitmask
\* ButtonsHeld reports when ScanPads succeeded, 0 when it failed or returned
\* false.
AdapterRaw(scanned, held) == IF scanned THEN held ELSE Zero

\* One pass poll -> normalize for the channel of a device of pair (c, p):
\* ScanPads returned scanned and ButtonsHeld(channel) would report held.
PipelineFrame(m, c, p, scanned, held) ==
  [scanned |-> scanned,
   held |-> held,
   connected |-> scanned,
   raw |-> AdapterRaw(scanned, held),
   logical |-> Normalize(m, c, p, AdapterRaw(scanned, held)),
   error |-> FALSE]

\* Bitmasks the adapter's ButtonsHeld may report for a device of pair (c, p).
AdapterHeld(m, c, p) ==
  { Zero, m[c][p][0], m[c][p][0] \cup m[c][p][1] \cup Foreign(m, c, p) }

\* The pipeline is set up for one pair and no frame has been polled.
InitPipeline ==
  /\ RegistryBooted
  /\ InputIdle
  /\ ctrlr = NewCtrlrMap(3)
  /\ fn = "Pipeline"
  /\ inp \in { << CTRL_PAD, CTRLR_GCPAD >>, << CTRL_PAD, CTRLR_WIIMOTE >>,
               << CTRL_MOUSE, CTRLR_CLASSIC >> }
  /\ out = << >>

\* One frame: the adapter is polled once and the result is normalized.
PollFrame ==
  /\ Len(out) < MaxFrames
  /\ \E scanned \in BOOLEAN, held \in AdapterHeld(btnmap, inp[1], inp[2]) :
       out' = Append(out, PipelineFrame(btnmap, inp[1], inp[2], scanned, held))
  /\ UNCHANGED << fn, inp, ctrlr >>

NextPipeline == PollFrame /\ UNCHANGED << registryVars, inputVars >>

SpecPipeline == InitPipeline /\ [][NextPipeline]_vars

\* C21: in a frame in which ScanPads fails or returns false the channel is
\* taken as disconnected with raw bitmask 0, the normalized bitmask is 0 and no
\* error is produced; the frame after it polls again and is normalized from
\* what the adapter reports then, whatever happened in the frame before.
C21_ScanFailureIsDisconnected ==
  fn = "Pipeline" =>
    \A k \in 1 .. Len(out) :
      /\ out[k].error = FALSE
      /\ ~out[k].scanned =>
           /\ out[k].connected = FALSE
           /\ out[k].raw = Zero
           /\ out[k].logical = Zero
      /\ out[k].scanned =>
           /\ out[k].raw = out[k].held
           /\ \A i \in Slots :
                i \in out[k].logical <=>
                  /\ i < SlotCount(inp[1])
                  /\ btnmap[inp[1]][inp[2]][i] # Zero
                  /\ btnmap[inp[1]][inp[2]][i] \subseteq out[k].held

\* A frame whose scan failed while the adapter still reported held buttons,
\* followed by a frame that polled again and normalized a button.
C21_Witness ==
  /\ fn = "Pipeline"
  /\ Len(out) >= 2
  /\ ~out[1].scanned
  /\ out[1].held # Zero
  /\ out[1].logical = Zero
  /\ out[2].scanned
  /\ out[2].logical = { 0 }

\* ------------------------------------------------ buffers and settings

\* C22: TestSafeBufferCopy with a source at least as long as the destination
\* (srcSize >= destSize > 0) truncates the data and leaves the destination
\* null-terminated inside its destSize chars, so that strlen(dest) is
\* destSize - 1 (9 for the 10-char destination of the test).
C22_TruncatedCopyIsTerminated ==
  ( /\ Applied("TestSafeBufferCopy")
    /\ inp[1] # NULL
    /\ inp[3] # NULL
    /\ Len(inp[2]) > 0
    /\ Len(inp[4]) >= Len(inp[2]) ) =>
      /\ out[1].ret = TRUE
      /\ \A i \in 1 .. Len(inp[2]) - 1 : out[1].buf[i] = inp[4][i]
      /\ out[1].buf[Len(inp[2])] = 0
      /\ out[1].strlen = << Len(inp[2]) - 1 >>

\* C23: after TestFixInvalidSettings, MusicVolume and SFXVolume are in 0..100
\* (clamped to the nearer bound), videomode is in 0..5 and render in 0..4
\* (reset to 0 when out of range), AutoLoad, AutoSave and Rumble are in {0, 1}
\* (reset to 1 when invalid), widescreen and TurboModeEnabled are in {0, 1}
\* (reset to 0 when invalid); values already in range and the other integer
\* fields are unchanged; a second application changes nothing.
C23_FixInvalidSettings ==
  (fn = "TestFixInvalidSettings" /\ Len(out) >= 1 /\ inp[1] # NULL) =>
    LET s == inp[2]
        t == out[1]
        InRange(f, lo, hi) == lo <= s[f] /\ s[f] <= hi
    IN  /\ \A f \in { "MusicVolume", "SFXVolume" } :
             /\ t[f] \in 0 .. 100
             /\ s[f] < 0 => t[f] = 0
             /\ s[f] > 100 => t[f] = 100
             /\ InRange(f, 0, 100) => t[f] = s[f]
        /\ t.videomode \in 0 .. 5
        /\ t.videomode = IF InRange("videomode", 0, 5) THEN s.videomode ELSE 0
        /\ t.render \in 0 .. 4
        /\ t.render = IF InRange("render", 0, 4) THEN s.render ELSE 0
        /\ \A f \in { "AutoLoad", "AutoSave", "Rumble" } :
             t[f] = IF s[f] \in { 0, 1 } THEN s[f] ELSE 1
        /\ \A f \in { "widescreen", "TurboModeEnabled" } :
             t[f] = IF s[f] \in { 0, 1 } THEN s[f] ELSE 0
        /\ \A f \in { "LoadMethod", "FrameSkip" } : t[f] = s[f]
        /\ Len(out) = 2 => out[2] = out[1]

\* The function has been applied twice to settings with a volume above 100
\* and an invalid Rumble.
C23_Witness ==
  /\ fn = "TestFixInvalidSettings"
  /\ Len(out) = 2
  /\ inp[1] # NULL
  /\ inp[2].MusicVolume = 150
  /\ inp[2].Rumble = 2
  /\ out[1].MusicVolume = 100
  /\ out[1].Rumble = 1
  /\ out[2] = out[1]

\* ------------------------------------------------ edge algebra

\* C24: for every previous and current bitmask the deltas of a successful step
\* satisfy: pressed and released are disjoint, pressed is a subset of current,
\* released is a subset of previous, pressed | released is previous XOR
\* current, and current is (previous & ~released) | pressed.
C24_EdgeAlgebra ==
  \A k \in 1 .. Frames :
    LET previous == states[k].buttons_held
        current == states[k + 1].buttons_held
        pressed == states[k + 1].buttons_pressed
        released == states[k + 1].buttons_released
    IN  /\ pressed \cap released = { }
        /\ pressed \subseteq current
        /\ released \subseteq previous
        /\ pressed \cup released = (previous \ current) \cup (current \ previous)
        /\ current = (previous \ released) \cup pressed

\* A step in which one button is pressed, one released and one stays held.
C24_Witness ==
  /\ Frames >= 2
  /\ ret
  /\ states[Frames].buttons_held = BitOr(SNES_B, SNES_START)
  /\ states[Frames + 1].buttons_held = BitOr(SNES_A, SNES_START)
  /\ states[Frames + 1].buttons_pressed = SNES_A
  /\ states[Frames + 1].buttons_released = SNES_B

\* The frames among the first k in which button b has a press event, and
\* those in which it has a release event.
PressFrames(b, k) == { j \in 1 .. k : b \in states[j + 1].buttons_pressed }

ReleaseFrames(b, k) == { j \in 1 .. k : b \in states[j + 1].buttons_released }

\* C25: over a sequence of frames that starts from previous = 0 and in which
\* each frame's current is the next frame's previous, the press and release
\* events of every button strictly alternate and begin with a press, and at
\* every frame the button is held iff it has had one more press than releases.
C25_EventsAlternate ==
  \A b \in U32Bits :
    /\ PressFrames(b, Frames) \cap ReleaseFrames(b, Frames) = { }
    /\ \A i, j \in PressFrames(b, Frames) :
         i < j => \E r \in ReleaseFrames(b, Frames) : i < r /\ r < j
    /\ \A i, j \in ReleaseFrames(b, Frames) :
         i < j => \E q \in PressFrames(b, Frames) : i < q /\ q < j
    /\ \A r \in ReleaseFrames(b, Frames) :
         \E q \in PressFrames(b, Frames) : q < r
    /\ \A k \in 0 .. Frames :
         Cardinality(PressFrames(b, k)) - Cardinality(ReleaseFrames(b, k)) =
           IF b \in HeldAt(k) THEN 1 ELSE 0

\* Button A is pressed, released and pressed again in three frames while B is
\* held throughout.
C25_Witness ==
  /\ Frames = 3
  /\ polled = << BitOr(SNES_A, SNES_B), SNES_B, BitOr(SNES_A, SNES_B) >>
  /\ states[2].buttons_pressed = BitOr(SNES_A, SNES_B)
  /\ states[3].buttons_released = SNES_A
  /\ states[4].buttons_pressed = SNES_A

\* ------------------------------------------------ analog algebra

\* C26: for every threshold >= 0 and every s16 x and y, the result of
\* TestStickToDigital holds neither Left and Right together nor Up and Down
\* together.
C26_NoOppositeDirections ==
  (Applied("TestStickToDigital") /\ inp[3] >= 0) =>
    /\ ~(SNES_LEFT \subseteq out[1] /\ SNES_RIGHT \subseteq out[1])
    /\ ~(SNES_UP \subseteq out[1] /\ SNES_DOWN \subseteq out[1])

\* A diagonal at the ends of the range with threshold 0: one direction per
\* axis.
C26_Witness ==
  /\ Applied("TestStickToDigital")
  /\ inp = << -32768, 32767, 0 >>
  /\ out[1] = BitOr(SNES_LEFT, SNES_UP)

\* C27: for the same bound t and every s16 x, y, t: whenever
\* TestStickDeadzone(x, y, t) is true, TestStickToDigital(x, y, t) is 0; and
\* for t >= 0, when TestStickToDigital(x, y, t) is 0 and TestStickDeadzone(x,
\* y, t) is false, the larger of |x| and |y| is t.
C27_DeadzoneImpliesNoDirection ==
  fn = "DeadzoneAndDigital" =>
    LET x == inp[1]
        y == inp[2]
        t == inp[3]
        ax == IF x < 0 THEN -x ELSE x
        ay == IF y < 0 THEN -y ELSE y
        larger == IF ax > ay THEN ax ELSE ay
    IN  /\ out[1] = TRUE => out[2] = Zero
        /\ (t >= 0 /\ out[2] = Zero /\ out[1] = FALSE) => larger = t
        /\ (t >= 0 /\ larger = t) => (out[2] = Zero /\ out[1] = FALSE)

\* One axis exactly at the bound: outside the deadzone and still no direction.
C27_Witness ==
  /\ fn = "DeadzoneAndDigital"
  /\ inp = << -20, 10, 20 >>
  /\ out = << FALSE, Zero >>

\* ------------------------------------------------ rebuild orders

\* A matrix in which every slot of every row holds a remapped code.
RemappedMatrix ==
  [c \in ConsoleTypes |-> [p \in ControllerTypes |->
     [i \in Slots |-> IF i < SlotCount(c) THEN WPAD_BUTTON_MINUS ELSE Zero]]]

\* How many single-pair rebuilds are made in a free order before the
\* remaining pairs follow in the order of their blocks.
MaxFreeOrder == 2

\* The index of the block of a pair.
BlockOf(cp) ==
  CHOOSE k \in 1 .. Len(Blocks) : Blocks[k].con = cp[1] /\ Blocks[k].wii = cp[2]

\* The matrix is as it was at startup or fully remapped, and nothing has been
\* rebuilt; inp is the set of pairs rebuilt one by one so far.
InitRebuild ==
  /\ before \in { ZeroMatrix, RemappedMatrix }
  /\ btnmap = before
  /\ call = NoCall
  /\ repeat = FALSE
  /\ remaps = 0
  /\ InputIdle
  /\ ctrlr = NewCtrlrMap(3)
  /\ fn = "Rebuild"
  /\ inp = { }
  /\ out = << >>

\* ResetControls(-1, -1) on the starting matrix.
FullRebuild ==
  /\ fn = "Rebuild"
  /\ inp = { }
  /\ btnmap' = ResetControls(btnmap, -1, CTRLR_NONE)
  /\ call' = << -1, CTRLR_NONE >>
  /\ fn' = "Full"
  /\ UNCHANGED << before, repeat, remaps, inp, out, ctrlr >>

\* ResetControls(c, p) for a defined pair that has not been rebuilt yet.
SinglePairRebuild ==
  /\ fn = "Rebuild"
  /\ \E cp \in { << Blocks[k].con, Blocks[k].wii >> : k \in 1 .. Len(Blocks) } \ inp :
       /\ \/ Cardinality(inp) < MaxFreeOrder
          \/ \A k \in 1 .. (BlockOf(cp) - 1) :
               << Blocks[k].con, Blocks[k].wii >> \in inp
       /\ btnmap' = ResetControls(btnmap, cp[1], cp[2])
       /\ call' = cp
       /\ inp' = inp \cup { cp }
  /\ UNCHANGED << before, repeat, remaps, fn, out, ctrlr >>

NextRebuild ==
  \/ FullRebuild /\ UNCHANGED inputVars
  \/ SinglePairRebuild /\ UNCHANGED inputVars

SpecRebuild == InitRebuild /\ [][NextRebuild]_vars

\* C28: the single-pair rebuilds of the defined pairs, made one after another
\* in any order from a starting matrix, give the matrix that the full rebuild
\* gives from the same starting matrix: after any of them, each rebuilt row is
\* the row of the full rebuild and every other row is as it was at the start
\* (no rebuild overwrites another's row, so their order does not matter), and
\* the full rebuild itself leaves that same matrix.
C28_FullEqualsAllSingles ==
  LET full == ResetControls(before, -1, CTRLR_NONE)
  IN  /\ fn = "Rebuild" =>
           /\ \A cp \in AllPairs :
                btnmap[cp[1]][cp[2]] = IF cp \in inp THEN full[cp[1]][cp[2]]
                                        ELSE before[cp[1]][cp[2]]
           /\ inp = DefinedPairs => btnmap = full
      /\ fn = "Full" => btnmap = full

\* Every defined pair has been rebuilt singly from the remapped matrix, the
\* pair of the last block before its turn.
C28_Witness ==
  /\ fn = "Rebuild"
  /\ inp = DefinedPairs
  /\ before = RemappedMatrix
  /\ call = << CTRL_JUST, CTRLR_WUPC >>
  /\ btnmap # before

\* ------------------------------------------------ row and table algebra

\* C29: in every row written by a rebuild no non-zero physical code is
\* assigned to two different logical slots, so Normalize applied to a raw
\* bitmask that holds exactly one of the row's physical codes sets exactly one
\* logical bit, the bit of the slot of that code.
C29_CodesDistinctInRow ==
  (Applied("Normalize") /\ << inp[1], inp[2] >> \in DefinedPairs) =>
    LET row == btnmap[inp[1]][inp[2]]
        used == 0 .. (SlotCount(inp[1]) - 1)
    IN  /\ \A i, j \in used : (i # j /\ row[i] # Zero) => row[i] # row[j]
        /\ \A i \in used :
             (row[i] # Zero /\ inp[3] = row[i]) => out[1] = { i }

\* Normalize has run on the Classic row of the Pad with the code of its last
\* slot held alone.
C29_Witness ==
  /\ Applied("Normalize")
  /\ inp[1] = CTRL_PAD
  /\ inp[2] = CTRLR_CLASSIC
  /\ inp[3] = btnmap[CTRL_PAD][CTRLR_CLASSIC][11]
  /\ inp[3] # Zero
  /\ out[1] = { 11 }

\* C30: the GC-to-SNES remap is injective on its defined source codes, every
\* non-zero result is one of the 12 single-bit SNES button codes, and no
\* source code maps to SNES Select.
C30_RemapInjective ==
  /\ Cardinality(SNESButtons) = 12
  /\ \A s \in SNESButtons : Cardinality(s) = 1
  /\ Applied("TestMapGCButtonToSNES") =>
       /\ out[1] # Zero => out[1] \in SNESButtons
       /\ out[1] # SNES_SELECT
       /\ inp[1] \in GCButtons =>
            \A g \in GCButtons \ { inp[1] } : TestMapGCButtonToSNES(g) # out[1]

\* The source code of Right, the highest defined one, has been looked up.
C30_Witness ==
  /\ Applied("TestMapGCButtonToSNES")
  /\ inp[1] = U32(32768)
  /\ out[1] = SNES_RIGHT

====
